---- MODULE Spec2Model ----
(***************************************************************************)
(* A model of the RAT vertex-animation codec of                            *)
(* Assets/CEngine/src/rat_handler.c: the bitstream helpers, the two file   *)
(* loaders, the frame reconstructor and the lifecycle of one RatModel.     *)
(*                                                                         *)
(* Conventions.                                                            *)
(*  - A C pointer is NULL (the empty tuple) or Ptr(x), a one-element tuple *)
(*    holding what it points to.                                           *)
(*  - A vertex is a triple <<x, y, z>>.                                    *)
(*  - A float is written as an integer n standing for the real n / 255, so *)
(*    that de-quantization min + (q / 255) * range is the exact integer    *)
(*    255 * min + q * range; bounds and raw coordinates are integers.      *)
(*    Float rounding is not modelled.                                      *)
(*  - A uint32 value of 2^31 or more is written as the negative integer    *)
(*    with the same 32 bits, its value as an int32_t: 0xFFFFFFFF is -1, as *)
(*    the source writes it, and 0x80000000 is -2^31.                       *)
(*  - Undefined behaviour that yields a value (a read past the delta       *)
(*    stream, a float-to-uint8 conversion of a value outside 0..255, a     *)
(*    shift of a uint32 by 32)                                             *)
(*    takes its value from an "env" record chosen anew at every call;      *)
(*    undefined behaviour that stops the program (a write through NULL, a  *)
(*    use of freed memory, a read of unmapped memory) is recorded in fault.*)
(***************************************************************************)
EXTENDS Integers, Sequences, FiniteSets, TLC

\* ---------------------------------------------------------------- bounds

MaxVertices == 2
MaxFrames == 2
MaxWords == 1
MaxReaderWords == 2
MaxOutside == 1

\* ------------------------------------------------------------- constants

U8Mod == 256
WordBits == 32

RAT3_MAGIC == 861557074
RATM_MAGIC == 1297367378

\* sizeof of the packed structs of rat_handler.h, and of uint16_t.
SizeofRatHeader == 64
SizeofRatMeshHeader == 48
SizeofVertexU8 == 3
SizeofVector3 == 12
SizeofVertexUV == 8
SizeofVertexColor == 16
SizeofIndex == 2
\* sizeof(mesh_data_filename) and sizeof(texture_filename).
FilenameSize == 256

NULL == <<>>
Ptr(x) == <<x>>
Deref(p) == p[1]

\* INT32_MAX; 2^31 itself is more than TLC computes with.
MaxInt32 == 2147483647

\* 1U << n, for n < 31.
Pow2(n) == 2 ^ n

\* The uint32_t v without its bit 31.
ClearTopBit(v) == IF v >= 0 THEN v ELSE (v + MaxInt32) + 1

\* v >> n on a uint32_t, for n < 32: a logical shift.
ShiftRight(v, n) ==
    IF n = 0 THEN v
    ELSE (IF n < 31 THEN ClearTopBit(v) \div Pow2(n) ELSE 0)
         + (IF v < 0 THEN Pow2(31 - n) ELSE 0)

\* v << n on a uint32_t, for n < 32: the bits shifted out are lost, and
\* the bit that lands on bit 31 makes the result negative.
ShiftLeft(v, n) ==
    IF n = 0 THEN v
    ELSE (IF n < 31 THEN (v % Pow2(31 - n)) * Pow2(n) ELSE 0)
         + (IF (v \div Pow2(31 - n)) % 2 = 1 THEN (-MaxInt32) - 1 ELSE 0)

\* Bit j of the uint32_t v.
WordBit(v, j) ==
    IF j = WordBits - 1 THEN (IF v < 0 THEN 1 ELSE 0)
    ELSE (v \div Pow2(j)) % 2

\* a | b on uint32_t, from bit j up.
RECURSIVE BitOrFrom(_, _, _)
BitOrFrom(a, b, j) ==
    IF j >= WordBits THEN 0
    ELSE BitOrFrom(a, b, j + 1)
         + (IF WordBit(a, j) = 1 \/ WordBit(b, j) = 1
            THEN (IF j = WordBits - 1 THEN (-MaxInt32) - 1 ELSE Pow2(j))
            ELSE 0)

BitOr(a, b) == BitOrFrom(a, b, 0)

\* C's division of a float product converted to an integer type truncates
\* toward zero.
TruncDiv(a, b) ==
    LET q == (IF a < 0 THEN -a ELSE a) \div (IF b < 0 THEN -b ELSE b)
    IN IF (a < 0) = (b < 0) THEN q ELSE -q

\* ------------------------------------------------- undefined-value choices

\* What a read of a word past the end of the delta stream may return.
GarbageWords == {0, 305419896}
\* What (uint8_t) of a float that is NaN, infinite or outside 0..255 may give.
GarbageU8 == {0, 200}
\* env.oob: the word read at any index past the stream; env.cast: the result
\* of an undefined conversion; env.crash: whether a read past the stream
\* hits unmapped memory and stops the program; env.shift_wraps: whether a
\* shift of a uint32_t by 32 or more takes its count modulo 32 (x << 32 is
\* x) or shifts every bit out (x << 32 is 0).
Envs ==
    [oob : GarbageWords, cast : GarbageU8, crash : BOOLEAN,
     shift_wraps : BOOLEAN]

\* No undefined operation: nothing is drawn.
NoEnv == [oob |-> 0, cast |-> 0, crash |-> FALSE, shift_wraps |-> FALSE]

\* ------------------------------------------------------ bitstream helpers

\* The n low bits of the uint32_t v, for n <= 32.
LowBits(v, n) ==
    IF n >= WordBits THEN v
    ELSE IF n = WordBits - 1 THEN ClearTopBit(v)
    ELSE v % Pow2(n)

\* (1U << n) - 1, for n < 32.
MaskBelow(n) == IF n < WordBits - 1 THEN Pow2(n) - 1 ELSE MaxInt32

\* The mask (1U << num_bits) - 1.  A shift by 32 or more is undefined:
\* 1U << 32 is 1 where the count wraps, giving the mask 0, and 0 elsewhere,
\* giving the mask 0xFFFFFFFF.
BitMask(num_bits, env) ==
    IF num_bits < WordBits THEN MaskBelow(num_bits)
    ELSE IF env.shift_wraps THEN MaskBelow(num_bits % WordBits) ELSE -1

\* v << n for any count n: undefined, with its two outcomes, from 32 on.
ShiftLeftBy(v, n, env) ==
    IF n < WordBits THEN ShiftLeft(v, n)
    ELSE IF env.shift_wraps THEN ShiftLeft(v, n % WordBits) ELSE 0

\* v & mask, for a mask of the form 2^k - 1.
AndMask(v, mask) ==
    IF mask = -1 THEN v
    ELSE IF mask = MaxInt32 THEN ClearTopBit(v)
    ELSE v % (mask + 1)

\* data[word_index]: past the allocation the read is undefined.
ReadWord(data, word_index, env) ==
    IF word_index < Len(data) THEN data[word_index + 1] ELSE env.oob

\* A cursor that stops at the end of the word a field starts in.
AdvanceWithinWord(bit_offset, num_bits) ==
    IF (bit_offset % WordBits) + num_bits <= WordBits
    THEN bit_offset + num_bits
    ELSE ((bit_offset \div WordBits) + 1) * WordBits

\* *bit_offset += num_bits.
AdvanceCursor(bit_offset, num_bits) == bit_offset + num_bits

\* get_bits: returns [value, bit_offset, oob]: the field read, the advanced
\* cursor and (a ghost) whether a word past the end of data was read.
get_bits(data, bit_offset, num_bits, env) ==
    IF num_bits = 0
    THEN [value |-> 0, bit_offset |-> bit_offset, oob |-> FALSE]
    ELSE
      LET word_index == bit_offset \div WordBits
          bit_index  == bit_offset % WordBits
          value ==
            IF bit_index + num_bits <= WordBits
            THEN AndMask(ShiftRight(ReadWord(data, word_index, env), bit_index),
                         BitMask(num_bits, env))
            ELSE
              LET part1     == ShiftRight(ReadWord(data, word_index, env), bit_index)
                  part1_len == WordBits - bit_index
                  part2_len == (num_bits - part1_len) % U8Mod
                  part2     == AndMask(ReadWord(data, word_index + 1, env),
                                       BitMask(part2_len, env))
              \* Below 32, part1 has no bit at or above part1_len and
              \* part2 << part1_len none below it, so | is +.  part1_len is
              \* 32 when a field of more than 32 bits starts a word.
              IN IF part1_len < WordBits
                 THEN part1 + ShiftLeft(part2, part1_len)
                 ELSE BitOr(part1, ShiftLeftBy(part2, part1_len, env))
          last_word == IF bit_index + num_bits <= WordBits
                       THEN word_index ELSE word_index + 1
      IN [value |-> value, bit_offset |-> AdvanceCursor(bit_offset, num_bits),
          oob |-> last_word >= Len(data)]

\* value | (~0U << n) read as an int32_t, for n < 32: the low bits of
\* value below ones.
OnesAbove(value, n) ==
    IF n < WordBits - 1 THEN LowBits(value, n) - Pow2(n)
    ELSE (LowBits(value, n) - MaxInt32) - 1

\* value | (~0U << num_bits) read as an int32_t.  ~0U << 32 is undefined:
\* it is ~0U where the count wraps and 0 elsewhere.
OrHighOnes(value, num_bits, env) ==
    IF num_bits < WordBits THEN OnesAbove(value, num_bits)
    ELSE IF env.shift_wraps THEN OnesAbove(value, num_bits % WordBits)
    ELSE value

\* (value & (1U << (num_bits - 1))) != 0.  From num_bits = 33 on the shift
\* is undefined: the bit tested is bit (num_bits - 1) % 32 where the count
\* wraps, and none elsewhere.
SignBitSet(value, num_bits, env) ==
    IF num_bits <= WordBits
    THEN ShiftRight(value, num_bits - 1) % 2 # 0
    ELSE env.shift_wraps
         /\ ShiftRight(value, (num_bits - 1) % WordBits) % 2 # 0

\* The field taken as it is, its sign bit a bit like the others.
ZeroExtend(value, num_bits, env) == value

\* sign_extend.
sign_extend(value, num_bits, env) ==
    IF num_bits = 0 THEN 0
    ELSE
      IF SignBitSet(value, num_bits, env)
      THEN OrHighOnes(value, num_bits, env)
      ELSE value

\* ---------------------------------------------------- frame reconstructor

\* Whether (uint8_t)(255.0f * (raw - min) / (max - min)) is undefined: a
\* division by zero gives NaN or an infinity, whose conversion is undefined,
\* as is that of a quotient that does not fit uint8_t after truncation.
QuantizeUndefined(raw, mn, mx) ==
    mx = mn \/ TruncDiv(255 * (raw - mn), mx - mn) \notin 0..(U8Mod - 1)

\* (uint8_t)(255.0f * (raw - min) / (max - min)).
QuantizeAxis(raw, mn, mx, env) ==
    IF QuantizeUndefined(raw, mn, mx) THEN env.cast
    ELSE TruncDiv(255 * (raw - mn), mx - mn)

\* Lines 305-315: the scratch buffer seeded with frame 0 when frame 0 is
\* asked for.
SeedFrame(anim, env) ==
    IF anim.is_first_frame_raw
    THEN [i \in 1..anim.num_vertices |->
            LET r == Deref(anim.first_frame_raw)[i]
            IN << QuantizeAxis(r[1], anim.min[1], anim.max[1], env),
                  QuantizeAxis(r[2], anim.min[2], anim.max[2], env),
                  QuantizeAxis(r[3], anim.min[3], anim.max[3], env) >>]
    ELSE [i \in 1..anim.num_vertices |-> Deref(anim.first_frame_quantized)[i]]

\* Lines 323-331: the same seeding, written a second time at the head of the
\* replay.
SeedFrameReplay(anim, env) ==
    IF anim.is_first_frame_raw
    THEN [i \in 1..anim.num_vertices |->
            LET r == Deref(anim.first_frame_raw)[i]
            IN << QuantizeAxis(r[1], anim.min[1], anim.max[1], env),
                  QuantizeAxis(r[2], anim.min[2], anim.max[2], env),
                  QuantizeAxis(r[3], anim.min[3], anim.max[3], env) >>]
    ELSE [i \in 1..anim.num_vertices |-> Deref(anim.first_frame_quantized)[i]]

\* An addition that stops at 0 and at 255.
AddDeltaSaturating(c, d) ==
    IF c + d < 0 THEN 0 ELSE IF c + d >= U8Mod THEN U8Mod - 1 ELSE c + d

\* prev_frame[i].x += dx on a uint8_t.
AddDelta(c, d) == (c + d) % U8Mod

\* The words behind anim->delta_stream: none when malloc(0) returned NULL.
StreamWords(anim) ==
    IF anim.delta_stream = NULL THEN <<>> ELSE Deref(anim.delta_stream)

\* A record with its overrun flag or-ed with oob.
MergeOob(r, oob) == [r EXCEPT !.oob = @ \/ oob]

\* sign_extend(get_bits(...), width) appended to the deltas read so far:
\* prev and the result are [d, bit_offset, oob], the deltas, the cursor and
\* whether a read overran the stream; g is what get_bits returned.
TakeDelta(prev, g, width, env) ==
    [d |-> Append(prev.d, sign_extend(g.value, width, env)),
     bit_offset |-> g.bit_offset,
     oob |-> prev.oob \/ g.oob]

\* One of lines 336-338: the next delta, read at the shared cursor.
ReadDelta(anim, width, env, prev) ==
    TakeDelta(prev, get_bits(StreamWords(anim), prev.bit_offset, width, env),
              width, env)

\* The three deltas of vertex i read z first, then y, then x, and handed on
\* as dx, dy, dz.
ReadVertexDeltasZYX(anim, i, bit_offset, env) ==
    LET r == ReadDelta(anim, Deref(anim.bit_widths_x)[i], env,
               ReadDelta(anim, Deref(anim.bit_widths_y)[i], env,
                 ReadDelta(anim, Deref(anim.bit_widths_z)[i], env,
                   [d |-> <<>>, bit_offset |-> bit_offset, oob |-> FALSE])))
    IN [r EXCEPT !.d = << r.d[3], r.d[2], r.d[1] >>]

\* Lines 336-338: dx, dy and dz of vertex i, read in this order.
ReadVertexDeltas(anim, i, bit_offset, env) ==
    ReadDelta(anim, Deref(anim.bit_widths_z)[i], env,
      ReadDelta(anim, Deref(anim.bit_widths_y)[i], env,
        ReadDelta(anim, Deref(anim.bit_widths_x)[i], env,
          [d |-> <<>>, bit_offset |-> bit_offset, oob |-> FALSE])))

\* Lines 340-342: the deltas d added to vertex v.
AddDeltas(v, d) ==
    << AddDelta(v[1], d[1]), AddDelta(v[2], d[2]), AddDelta(v[3], d[3]) >>

\* Lines 335-343: the vertices i..num_vertices of one frame, with the shared
\* cursor; returns [verts, bit_offset, oob].
RECURSIVE DeltaVertices(_, _, _, _, _)
\* Lines 340-343: vertex i updated with the deltas r, then the next vertex.
DeltaVertex(anim, verts, i, env, r) ==
    MergeOob(DeltaVertices(anim, [verts EXCEPT ![i] = AddDeltas(@, r.d)],
                           i + 1, r.bit_offset, env),
             r.oob)

DeltaVertices(anim, verts, i, bit_offset, env) ==
    IF i > anim.num_vertices
    THEN [verts |-> verts, bit_offset |-> bit_offset, oob |-> FALSE]
    ELSE DeltaVertex(anim, verts, i, env,
                     ReadVertexDeltas(anim, i, bit_offset, env))

\* Lines 333-344: frames f..frame_index.
RECURSIVE DeltaFrames(_, _, _, _, _, _)
\* Line 334: after frame f, whose result is r, the frames that follow.
NextFrame(anim, f, frame_index, env, r) ==
    MergeOob(DeltaFrames(anim, r.verts, f + 1, frame_index, r.bit_offset, env),
             r.oob)

DeltaFrames(anim, verts, f, frame_index, bit_offset, env) ==
    IF f > frame_index
    THEN [verts |-> verts, bit_offset |-> bit_offset, oob |-> FALSE]
    ELSE NextFrame(anim, f, frame_index, env,
                   DeltaVertices(anim, verts, 1, bit_offset, env))

\* A de-quantization that forgets the lower bound.
DequantizeAxisNoMin(q, mn, mx) == q * (mx - mn)

\* Lines 347-356: min + (q / 255.0f) * range, in units of 1/255.
DequantizeAxis(q, mn, mx) == 255 * mn + q * (mx - mn)

Dequantize(anim, verts) ==
    [i \in 1..anim.num_vertices |->
        << DequantizeAxis(verts[i][1], anim.min[1], anim.max[1]),
           DequantizeAxis(verts[i][2], anim.min[2], anim.max[2]),
           DequantizeAxis(verts[i][3], anim.min[3], anim.max[3]) >>]

\* Lines 317-345: the else branch, the seed and then the deltas of frames
\* 1..frame_index read from bit 0.
ReplayPath(anim, frame_index, env) ==
    DeltaFrames(anim, SeedFrameReplay(anim, env), 1, frame_index, 0, env)

\* Lines 304-345: [verts, bit_offset, oob], the quantized vertices left in
\* the scratch buffer, the final cursor and whether the stream was overrun.
ReconstructU8(anim, frame_index, env) ==
    IF frame_index = 0
    THEN [verts |-> SeedFrame(anim, env), bit_offset |-> 0, oob |-> FALSE]
    ELSE ReplayPath(anim, frame_index, env)

\* Variant of StoreFrame: the reconstructed frame also replaces the base
\* frame of the animation record.
StoreFrameIntoBase(m, u8) ==
    [m EXCEPT !.decompressed_vertices_u8 = Ptr(u8),
              !.current_frame_vertices = Ptr(Dequantize(Deref(m.animation), u8)),
              !.animation = Ptr([Deref(m.animation) EXCEPT
                                    !.first_frame_quantized = Ptr(u8)])]

\* Lines 347-356: the quantized vertices kept in the scratch buffer and
\* de-quantized into current_frame_vertices.
StoreFrame(m, u8) ==
    [m EXCEPT !.decompressed_vertices_u8 = Ptr(u8),
              !.current_frame_vertices = Ptr(Dequantize(Deref(m.animation), u8))]

\* decompress_frame: the model with both scratch buffers rewritten.
decompress_frame(m, frame_index, env) ==
    StoreFrame(m, ReconstructU8(Deref(m.animation), frame_index, env).verts)

\* ------------------------------------------------------------- the files

\* Bounding boxes: one with range 255 on every axis, and one whose y axis
\* has another range and whose z axis is degenerate (max = min).
PlainBounds == [min |-> <<0, 0, 0>>, max |-> <<255, 255, 255>>]
MixedBounds == [min |-> <<0, -10, 5>>, max |-> <<255, 500, 5>>]

\* The base frames: [raw, bounds].
SeedKinds ==
    { [raw |-> FALSE, bounds |-> MixedBounds],
      [raw |-> TRUE, bounds |-> PlainBounds],
      [raw |-> TRUE, bounds |-> MixedBounds] }

\* What a file may hold for one vertex: its base position, pre-quantized or
\* raw, and its three bit widths.
VertexProfiles ==
    { [quantized |-> <<0, 10, 255>>, raw |-> <<0, 10, 255>>,
       widths |-> <<4, 4, 4>>],
      [quantized |-> <<10, 10, 10>>, raw |-> <<300, 3, 5>>,
       widths |-> <<0, 11, 12>>] }

\* 0x7A5C321F; every word is below 2^31.
DeltaWords == { 2052862495 }

Streams == UNION { [1..n -> DeltaWords] : n \in 0..MaxWords }

\* What a file is: one that cannot be read, one shorter than its header,
\* one with another magic, a well-formed one, and two whose header passes
\* the checks: one that declares a block outside the file, and one that
\* declares a filename outside the file or longer than its field.
FileKinds ==
    { "unreadable", "short", "bad_magic", "ok", "corrupt_region",
      "corrupt_name" }

\* Where a well-formed .rat file of nv vertices and words delta words keeps
\* its regions: header, quantized base frame, mesh filename, bit widths, raw
\* base frame, delta stream.
ChunkLayout(nv, raw, words) ==
    LET name_offset == SizeofRatHeader
                       + (IF raw THEN 0 ELSE SizeofVertexU8 * nv)
        name_length == Len("a.ratmesh")
        bit_widths_offset == name_offset + name_length
        raw_offset == bit_widths_offset + 3 * nv
        delta_offset == raw_offset + (IF raw THEN SizeofVector3 * nv ELSE 0)
    IN [magic |-> RAT3_MAGIC,
        buffer_size |-> delta_offset + 4 * words,
        mesh_data_filename_offset |-> name_offset,
        mesh_data_filename_length |-> name_length,
        bit_widths_offset |-> bit_widths_offset,
        raw_first_frame_offset |-> IF raw THEN raw_offset ELSE 0,
        delta_offset |-> delta_offset]

\* A file that is rejected before its regions are read: of the given
\* length and magic.
NoChunk(kind, buffer_size, magic) ==
    [kind |-> kind, num_vertices |-> 0, num_frames |-> 0,
     is_first_frame_raw |-> FALSE,
     min |-> <<0, 0, 0>>, max |-> <<0, 0, 0>>,
     first_frame |-> <<>>, bit_widths_x |-> <<>>, bit_widths_y |-> <<>>,
     bit_widths_z |-> <<>>, delta_stream |-> <<>>,
     layout |-> [ChunkLayout(0, FALSE, 0) EXCEPT !.buffer_size = buffer_size,
                                                 !.magic = magic]]

\* The files that the header checks reject: empty or one byte short of the
\* header, with either magic; of header length or more with the other
\* container's magic or none.
RejectedChunks ==
    { NoChunk("unreadable", 0, 0) } \cup
    { NoChunk("short", n, g) :
        n \in {0, SizeofRatHeader - 1}, g \in {RAT3_MAGIC, RATM_MAGIC} } \cup
    { NoChunk("bad_magic", n, g) :
        n \in {SizeofRatHeader, SizeofRatHeader + 1}, g \in {RATM_MAGIC, 0} }

\* The .rat files: any header the format allows, whether or not the delta
\* stream is long enough for its frames.
WellFormedChunks ==
    UNION { UNION {
      { [kind |-> "ok", num_vertices |-> nv, num_frames |-> nf,
         is_first_frame_raw |-> k.raw,
         min |-> k.bounds.min, max |-> k.bounds.max,
         first_frame |-> [i \in 1..nv |->
                            IF k.raw THEN v[i].raw ELSE v[i].quantized],
         bit_widths_x |-> [i \in 1..nv |-> v[i].widths[1]],
         bit_widths_y |-> [i \in 1..nv |-> v[i].widths[2]],
         bit_widths_z |-> [i \in 1..nv |-> v[i].widths[3]],
         delta_stream |-> ds,
         layout |-> ChunkLayout(nv, k.raw, Len(ds))] :
        nf \in 0..MaxFrames, ds \in Streams, v \in [1..nv -> VertexProfiles] }
      : k \in SeedKinds }
      : nv \in 0..MaxVertices }

\* Whether the mesh filename lies inside the file and fits its field with
\* its terminator.
ChunkNameInside(c) ==
    /\ c.layout.mesh_data_filename_length < FilenameSize
    /\ c.layout.mesh_data_filename_offset + c.layout.mesh_data_filename_length
         <= c.layout.buffer_size

\* Whether every block that load_rat_animation copies lies inside the file.
ChunkRegionsInside(c) ==
    LET l == c.layout
        nv == c.num_vertices
    IN /\ IF c.is_first_frame_raw
          THEN l.raw_first_frame_offset + SizeofVector3 * nv <= l.buffer_size
          ELSE SizeofRatHeader + SizeofVertexU8 * nv <= l.buffer_size
       /\ l.bit_widths_offset + 3 * nv <= l.buffer_size
       /\ l.delta_offset <= l.buffer_size

\* The header of chunk c with one field changed: a mesh filename as long as
\* its field, a mesh filename, a bit-width table, a raw base frame and a
\* delta stream declared past the end of the file, and a file cut after
\* its header.
LayoutEdits(c) ==
    { [c.layout EXCEPT !.mesh_data_filename_length = FilenameSize,
                       !.mesh_data_filename_offset = SizeofRatHeader,
                       !.buffer_size = @ + FilenameSize],
      [c.layout EXCEPT !.mesh_data_filename_offset = c.layout.buffer_size - 1],
      [c.layout EXCEPT !.buffer_size = SizeofRatHeader],
      [c.layout EXCEPT !.bit_widths_offset = c.layout.buffer_size - 1],
      [c.layout EXCEPT !.raw_first_frame_offset = c.layout.buffer_size],
      [c.layout EXCEPT !.delta_offset = c.layout.buffer_size + 4] }

\* The well-formed files of one vertex and one frame with such a header.
CorruptChunks ==
    LET edited ==
          UNION { { [b EXCEPT !.layout = l] : l \in LayoutEdits(b) } :
                  b \in { w \in WellFormedChunks :
                            /\ w.num_vertices = 1 /\ w.num_frames = 1
                            /\ w.delta_stream = <<>>
                            /\ w.bit_widths_x = <<4>> } }
    IN { [c EXCEPT !.kind = "corrupt_region"] :
           c \in { e \in edited : ~ChunkRegionsInside(e) } }
       \cup
       { [c EXCEPT !.kind = "corrupt_name"] :
           c \in { e \in edited :
                     ChunkRegionsInside(e) /\ ~ChunkNameInside(e) } }

\* A file of two vertices at 0,0,0 and 10,10,10, pre-quantized, with the
\* bounds 0..255, two frames and 4-bit deltas: +1,+1,+1 for the first vertex
\* and -1,-1,-1 for the second, the word 0x00FFF111.
TwoVertexChunk ==
    [kind |-> "ok", num_vertices |-> 2, num_frames |-> 2,
     is_first_frame_raw |-> FALSE,
     min |-> PlainBounds.min, max |-> PlainBounds.max,
     first_frame |-> << <<0, 0, 0>>, <<10, 10, 10>> >>,
     bit_widths_x |-> <<4, 4>>, bit_widths_y |-> <<4, 4>>,
     bit_widths_z |-> <<4, 4>>,
     delta_stream |-> << 16773393 >>,
     layout |-> ChunkLayout(2, FALSE, 1)]

\* A file of one vertex at 0,10,255 with one frame more than the others
\* have at most, whose word 0x7A5C321F holds the 4-bit deltas of both frames
\* after the base: -1,+1,+2 and then +3,-4,+5.
LongChunk ==
    [kind |-> "ok", num_vertices |-> 1, num_frames |-> MaxFrames + 1,
     is_first_frame_raw |-> FALSE,
     min |-> PlainBounds.min, max |-> PlainBounds.max,
     first_frame |-> << <<0, 10, 255>> >>,
     bit_widths_x |-> <<4>>, bit_widths_y |-> <<4>>, bit_widths_z |-> <<4>>,
     delta_stream |-> << 2052862495 >>,
     layout |-> ChunkLayout(1, FALSE, 1)]

\* A file of one vertex at 10,10,10 whose x width is 33, with two frames
\* and the two words that hold the 33 bits of frame 1.
WideChunk ==
    [kind |-> "ok", num_vertices |-> 1, num_frames |-> 2,
     is_first_frame_raw |-> FALSE,
     min |-> PlainBounds.min, max |-> PlainBounds.max,
     first_frame |-> << <<10, 10, 10>> >>,
     bit_widths_x |-> <<WordBits + 1>>, bit_widths_y |-> <<0>>,
     bit_widths_z |-> <<0>>,
     delta_stream |-> << 5, 1 >>,
     layout |-> ChunkLayout(1, FALSE, 2)]

\* A file of two vertices at 0,0,0 and 10,10,10 whose frame takes 40 bits,
\* 12,12,4 for the first vertex and 12,0,0 for the second, so that the x
\* delta of the second vertex lies in bits 28..39, across the two words of
\* the stream; the words hold +1 for that delta and 0 for the others.
StraddleChunk ==
    [kind |-> "ok", num_vertices |-> 2, num_frames |-> 2,
     is_first_frame_raw |-> FALSE,
     min |-> PlainBounds.min, max |-> PlainBounds.max,
     first_frame |-> << <<0, 0, 0>>, <<10, 10, 10>> >>,
     bit_widths_x |-> <<12, 12>>, bit_widths_y |-> <<12, 0>>,
     bit_widths_z |-> <<4, 0>>,
     delta_stream |-> << 268435456, 0 >>,
     layout |-> ChunkLayout(2, FALSE, 2)]

ChunkFiles ==
    RejectedChunks \cup WellFormedChunks \cup CorruptChunks
        \cup { TwoVertexChunk, LongChunk, WideChunk, StraddleChunk }

\* Where a well-formed .ratmesh file of nv vertices and ni indices keeps its
\* regions: header, UVs, colors, indices, texture filename.
MeshLayout(nv, ni) ==
    LET color_offset == SizeofRatMeshHeader + SizeofVertexUV * nv
        indices_offset == color_offset + SizeofVertexColor * nv
        name_offset == indices_offset + SizeofIndex * ni
        name_length == Len("a.png")
    IN [magic |-> RATM_MAGIC,
        buffer_size |-> name_offset + name_length,
        uv_offset |-> SizeofRatMeshHeader,
        color_offset |-> color_offset,
        indices_offset |-> indices_offset,
        texture_filename_offset |-> name_offset,
        texture_filename_length |-> name_length]

\* A mesh file that is rejected before its regions are read.
NoMesh(kind, buffer_size, magic) ==
    [kind |-> kind, num_vertices |-> 0, num_indices |-> 0,
     layout |-> [MeshLayout(0, 0) EXCEPT !.buffer_size = buffer_size,
                                         !.magic = magic]]

RejectedMeshes ==
    { NoMesh("unreadable", 0, 0),
      NoMesh("short", SizeofRatMeshHeader - 1, RATM_MAGIC),
      NoMesh("bad_magic", SizeofRatMeshHeader, RAT3_MAGIC) }

WellFormedMeshes ==
    { [kind |-> "ok", num_vertices |-> nv, num_indices |-> 3 * (nv % 2),
       layout |-> MeshLayout(nv, 3 * (nv % 2))] :
        nv \in (MaxVertices - 1)..MaxVertices }

\* Whether every block that load_rat_mesh_data copies lies inside the file.
MeshRegionsInside(f) ==
    LET l == f.layout
    IN /\ l.uv_offset + SizeofVertexUV * f.num_vertices <= l.buffer_size
       /\ l.color_offset + SizeofVertexColor * f.num_vertices <= l.buffer_size
       /\ l.indices_offset + SizeofIndex * f.num_indices <= l.buffer_size

\* Whether the texture filename lies inside the file and fits its field
\* with its terminator.
MeshNameInside(f) ==
    /\ f.layout.texture_filename_length < FilenameSize
    /\ f.layout.texture_filename_offset + f.layout.texture_filename_length
         <= f.layout.buffer_size

\* The well-formed mesh files that have indices, with one header field
\* changed: a UV block declared past the end of the file, and a texture
\* filename as long as its field.
CorruptMeshes ==
    LET edited ==
          UNION { { [b EXCEPT !.layout.uv_offset = b.layout.buffer_size],
                    [b EXCEPT !.layout.indices_offset = b.layout.buffer_size - 1],
                    [b EXCEPT !.layout.texture_filename_length = FilenameSize,
                              !.layout.buffer_size = @ + FilenameSize] } :
                  b \in { w \in WellFormedMeshes : w.num_indices > 0 } }
    IN { [f EXCEPT !.kind = "corrupt_region"] :
           f \in { e \in edited : ~MeshRegionsInside(e) } }
       \cup
       { [f EXCEPT !.kind = "corrupt_name"] :
           f \in { e \in edited :
                     MeshRegionsInside(e) /\ ~MeshNameInside(e) } }

\* The .ratmesh files.
MeshFiles == RejectedMeshes \cup WellFormedMeshes \cup CorruptMeshes

TextureIds == { 7 }

\* -------------------------------------------------------------- the heap

AllocSites ==
    { "model", "chunk_buffer", "animation", "first_frame_quantized",
      "first_frame_raw", "bit_widths_x", "bit_widths_y", "bit_widths_z",
      "delta_stream", "mesh_buffer", "mesh_data", "uvs", "colors", "indices",
      "decompressed_vertices_u8", "current_frame_vertices" }

\* The malloc and calloc calls of rat_handler.c that may return NULL.
FailSites == AllocSites \ { "chunk_buffer", "mesh_buffer" }

\* At most one allocation returns NULL in one load.
FailureSets == { {} } \cup { {s} : s \in FailSites }

EmptyHeap == [s \in AllocSites |-> "none"]

AllocAll(h, sites) == [s \in AllocSites |-> IF s \in sites THEN "live" ELSE h[s]]

\* free(p) of the block allocated at site.
Free(h, site) ==
    [h EXCEPT ![site] = IF @ = "live" THEN "freed"
                        ELSE IF @ = "freed" THEN "freed_twice" ELSE @]

\* free(p): nothing for a null pointer.
FreePtr(h, site, p) == IF p = NULL THEN h ELSE Free(h, site)

\* malloc(...) at site, holding content.
Malloc(site, fails, content) == IF site \in fails THEN NULL ELSE Ptr(content)

\* ------------------------------------------------------------ the loaders

\* strncpy(dst, buffer + offset, length); dst[length] = '\0' into a field
\* of FilenameSize bytes: the undefined behaviour it meets, if any.  The
\* name in the file holds no terminator.
NameCopyFault(offset, length, buffer_size) ==
    IF length >= FilenameSize THEN "name_oob_write"
    ELSE IF offset + length > buffer_size THEN "name_oob_read"
    ELSE "none"

\* dst = malloc(size); memcpy(dst, buffer + offset, size): the undefined
\* behaviour it meets, if any; is_null tells whether malloc returned NULL.
CopyFault(is_null, offset, size, buffer_size) ==
    IF size = 0 THEN "none"
    ELSE IF is_null THEN "null_deref"
    ELSE IF offset + size > buffer_size THEN "region_oob_read"
    ELSE "none"

\* The first fault of a sequence of steps.
RECURSIVE FirstFault(_)
FirstFault(faults) ==
    IF faults = <<>> THEN "none"
    ELSE IF Head(faults) # "none" THEN Head(faults)
    ELSE FirstFault(Tail(faults))

\* What a loader returns: [ret, heap, fault, failed, diag], where failed (a
\* ghost) tells whether one of its allocations returned NULL and diag which
\* message it wrote to stderr: "Truncated" for "smaller than" the header,
\* "BadMagic" for "Invalid ... magic number".
Parsed(ret, h, fault, failed, diag) ==
    [ret |-> ret, heap |-> h, fault |-> fault, failed |-> failed,
     diag |-> diag]

\* Lines 199-242 of load_rat_animation: the record is allocated and h holds
\* the file buffer.
FillAnimation(file, fails, h) ==
    LET l == file.layout
        nv == file.num_vertices
        raw == file.is_first_frame_raw
        frame_site == IF raw THEN "first_frame_raw" ELSE "first_frame_quantized"
        bw_sites == {"bit_widths_x", "bit_widths_y", "bit_widths_z"}
        name_fault == NameCopyFault(l.mesh_data_filename_offset,
                                    l.mesh_data_filename_length, l.buffer_size)
        frame_fault ==
          IF raw
          THEN CopyFault(frame_site \in fails, l.raw_first_frame_offset,
                         SizeofVector3 * nv, l.buffer_size)
          ELSE CopyFault(frame_site \in fails, SizeofRatHeader,
                         SizeofVertexU8 * nv, l.buffer_size)
        bw_fault == CopyFault((bw_sites \cap fails) # {}, l.bit_widths_offset,
                              3 * nv, l.buffer_size)
        \* buffer_size - delta_offset wraps around below zero: the copy
        \* then runs far past the file
        delta_fault ==
          IF l.delta_offset > l.buffer_size THEN "region_oob_read"
          ELSE CopyFault("delta_stream" \in fails, l.delta_offset,
                         l.buffer_size - l.delta_offset, l.buffer_size)
        fault == FirstFault(<<name_fault, frame_fault, bw_fault, delta_fault>>)
        reached == IF name_fault # "none" THEN {"animation"}
                   ELSE IF frame_fault # "none" THEN {"animation", frame_site}
                   ELSE IF bw_fault # "none"
                   THEN {"animation", frame_site} \cup bw_sites
                   ELSE {"animation", frame_site, "delta_stream"} \cup bw_sites
        h2 == AllocAll(h, reached \ fails)
        anim ==
          [num_vertices |-> nv,
           num_frames |-> file.num_frames,
           min |-> file.min, max |-> file.max,
           is_first_frame_raw |-> raw,
           first_frame_raw |->
              IF raw THEN Malloc("first_frame_raw", fails, file.first_frame)
              ELSE NULL,
           first_frame_quantized |->
              IF raw THEN NULL
              ELSE Malloc("first_frame_quantized", fails, file.first_frame),
           bit_widths_x |-> Malloc("bit_widths_x", fails, file.bit_widths_x),
           bit_widths_y |-> Malloc("bit_widths_y", fails, file.bit_widths_y),
           bit_widths_z |-> Malloc("bit_widths_z", fails, file.bit_widths_z),
           delta_stream |-> Malloc("delta_stream", fails, file.delta_stream),
           delta_stream_word_count |-> (l.buffer_size - l.delta_offset) \div 4]
    IN IF fault # "none"
       THEN Parsed(NULL, h2, fault, fault = "null_deref", "none")
       ELSE Parsed(Ptr(anim), Free(h2, "chunk_buffer"), "none", FALSE, "none")

\* Variant of load_rat_animation: the magic is tested before the length.
load_rat_animation_magic_first(file, fails, h) ==
    IF file.kind = "unreadable"
    THEN Parsed(NULL, h, "none", FALSE, "none")
    ELSE IF file.layout.magic # RAT3_MAGIC
    THEN Parsed(NULL, Free(AllocAll(h, {"chunk_buffer"}), "chunk_buffer"),
                "none", FALSE, "BadMagic")
    ELSE IF file.layout.buffer_size < SizeofRatHeader
    THEN Parsed(NULL, Free(AllocAll(h, {"chunk_buffer"}), "chunk_buffer"),
                "none", FALSE, "Truncated")
    ELSE IF "animation" \in fails
    THEN Parsed(NULL, Free(AllocAll(h, {"chunk_buffer"}), "chunk_buffer"),
                "none", TRUE, "none")
    ELSE FillAnimation(file, fails, AllocAll(h, {"chunk_buffer"}))

\* load_rat_animation.
load_rat_animation(file, fails, h) ==
    IF file.kind = "unreadable"
    THEN Parsed(NULL, h, "none", FALSE, "none")
    ELSE IF file.layout.buffer_size < SizeofRatHeader
    THEN Parsed(NULL, Free(AllocAll(h, {"chunk_buffer"}), "chunk_buffer"),
                "none", FALSE, "Truncated")
    ELSE IF file.layout.magic # RAT3_MAGIC
    THEN Parsed(NULL, Free(AllocAll(h, {"chunk_buffer"}), "chunk_buffer"),
                "none", FALSE, "BadMagic")
    ELSE IF "animation" \in fails
    THEN Parsed(NULL, Free(AllocAll(h, {"chunk_buffer"}), "chunk_buffer"),
                "none", TRUE, "none")
    ELSE FillAnimation(file, fails, AllocAll(h, {"chunk_buffer"}))

\* Lines 274-297 of load_rat_mesh_data: the record is allocated and h holds
\* the file buffer.  The UV, color and index blocks are kept by their
\* element counts.
FillMesh(file, fails, h) ==
    LET l == file.layout
        nv == file.num_vertices
        ni == file.num_indices
        uv_fault == CopyFault("uvs" \in fails, l.uv_offset,
                              SizeofVertexUV * nv, l.buffer_size)
        color_fault == CopyFault("colors" \in fails, l.color_offset,
                                 SizeofVertexColor * nv, l.buffer_size)
        index_fault == CopyFault("indices" \in fails, l.indices_offset,
                                 SizeofIndex * ni, l.buffer_size)
        name_fault == NameCopyFault(l.texture_filename_offset,
                                    l.texture_filename_length, l.buffer_size)
        fault == FirstFault(<<uv_fault, color_fault, index_fault, name_fault>>)
        reached == IF uv_fault # "none" THEN {"mesh_data", "uvs"}
                   ELSE IF color_fault # "none"
                   THEN {"mesh_data", "uvs", "colors"}
                   ELSE {"mesh_data", "uvs", "colors", "indices"}
        h2 == AllocAll(h, reached \ fails)
        mesh ==
          [num_vertices |-> nv, num_indices |-> ni,
           uvs |-> Malloc("uvs", fails, nv),
           colors |-> Malloc("colors", fails, nv),
           indices |-> Malloc("indices", fails, ni)]
    IN IF fault # "none"
       THEN Parsed(NULL, h2, fault, fault = "null_deref", "none")
       ELSE Parsed(Ptr(mesh), Free(h2, "mesh_buffer"), "none", FALSE, "none")

\* load_rat_mesh_data.
load_rat_mesh_data(file, fails, h) ==
    IF file.kind = "unreadable"
    THEN Parsed(NULL, h, "none", FALSE, "none")
    ELSE IF file.layout.buffer_size < SizeofRatMeshHeader
    THEN Parsed(NULL, Free(AllocAll(h, {"mesh_buffer"}), "mesh_buffer"),
                "none", FALSE, "Truncated")
    ELSE IF file.layout.magic # RATM_MAGIC
    THEN Parsed(NULL, Free(AllocAll(h, {"mesh_buffer"}), "mesh_buffer"),
                "none", FALSE, "BadMagic")
    ELSE IF "mesh_data" \in fails
    THEN Parsed(NULL, Free(AllocAll(h, {"mesh_buffer"}), "mesh_buffer"),
                "none", TRUE, "none")
    ELSE FillMesh(file, fails, AllocAll(h, {"mesh_buffer"}))

\* ---------------------------------------------------------- the lifecycle

\* calloc(1, sizeof(RatModel)).
ZeroModel ==
    [animation |-> NULL, mesh_data |-> NULL,
     decompressed_vertices_u8 |-> NULL, current_frame_vertices |-> NULL,
     current_frame |-> 0, texture_id |-> 0, is_valid |-> FALSE]

\* Variant of DestroyFrees: only the model struct is freed.
DestroyFreesModelOnly(m, h) == Free(h, "model")

\* rat_model_destroy on a non-null model whose memory is intact: the heap
\* after its frees.
DestroyFrees(m, h) ==
    LET ha == IF m.animation = NULL THEN h
              ELSE LET a == Deref(m.animation)
                       a1 == FreePtr(h, "first_frame_quantized", a.first_frame_quantized)
                       a2 == FreePtr(a1, "first_frame_raw", a.first_frame_raw)
                       a3 == FreePtr(a2, "bit_widths_x", a.bit_widths_x)
                       a4 == FreePtr(a3, "bit_widths_y", a.bit_widths_y)
                       a5 == FreePtr(a4, "bit_widths_z", a.bit_widths_z)
                       a6 == FreePtr(a5, "delta_stream", a.delta_stream)
                   IN Free(a6, "animation")
        hm == IF m.mesh_data = NULL THEN ha
              ELSE LET d == Deref(m.mesh_data)
                       d1 == FreePtr(ha, "uvs", d.uvs)
                       d2 == FreePtr(d1, "colors", d.colors)
                       d3 == FreePtr(d2, "indices", d.indices)
                   IN Free(d3, "mesh_data")
        h1 == FreePtr(hm, "decompressed_vertices_u8", m.decompressed_vertices_u8)
        h2 == FreePtr(h1, "current_frame_vertices", m.current_frame_vertices)
    IN Free(h2, "model")

\* rat_model_is_valid, on a null handle or a live model.
rat_model_is_valid(hnd, m) == hnd # "null" /\ m.is_valid

\* Variant of rat_model_get_chunk_frame_count: no test of num_vertices.
FrameCountRecorded(hnd, m) ==
    IF hnd = "null" \/ m.animation = NULL THEN 0
    ELSE Deref(m.animation).num_frames

\* rat_model_get_chunk_frame_count, on a null handle or a live model.
rat_model_get_chunk_frame_count(hnd, m) ==
    IF hnd = "null" \/ m.animation = NULL
       \/ Deref(m.animation).num_vertices = 0
    THEN 0
    ELSE Deref(m.animation).num_frames

\* Variant of ClampFrame: an out-of-range frame is clamped to frame_count.
ClampToCount(hnd, m, local_frame) ==
    LET frame_count == rat_model_get_chunk_frame_count(hnd, m)
    IN IF local_frame >= frame_count THEN frame_count ELSE local_frame

\* Variant of ClampFrame: the frame asked for, whatever the frame count.
ClampNever(hnd, m, local_frame) == local_frame

\* Lines 109-113: the frame rat_model_update reconstructs.
ClampFrame(hnd, m, local_frame) ==
    LET frame_count == rat_model_get_chunk_frame_count(hnd, m)
    IN IF local_frame >= frame_count
       THEN (IF frame_count > 0 THEN frame_count - 1 ELSE 0)
       ELSE local_frame

\* Variant of UpdateReturnsEarly: no test of the stored frame.
ReturnsEarlyUnlessValid(hnd, m, local_frame) ==
    hnd = "null" \/ ~m.is_valid

\* Variant of UpdateReturnsEarly: the stored frame is compared with the
\* clamped frame.
ReturnsEarlyAfterClamp(hnd, m, local_frame) ==
    hnd = "null" \/ ~m.is_valid
    \/ ClampFrame(hnd, m, local_frame) = m.current_frame

\* Line 105: the early return of rat_model_update.
UpdateReturnsEarly(hnd, m, local_frame) ==
    hnd = "null" \/ ~m.is_valid \/ local_frame = m.current_frame

\* Lines 115-116: decompress_frame and the store of current_frame.
UpdateTo(m, target, env) ==
    [decompress_frame(m, target, env) EXCEPT !.current_frame = target]

\* rat_model_update: the model it leaves.
rat_model_update(hnd, m, local_frame, env) ==
    IF UpdateReturnsEarly(hnd, m, local_frame) THEN m
    ELSE UpdateTo(m, ClampFrame(hnd, m, local_frame), env)

\* The bits lines 336-338 read for one frame.
RECURSIVE BitsOfVertices(_, _)
BitsOfVertices(anim, i) ==
    IF i > anim.num_vertices THEN 0
    ELSE Deref(anim.bit_widths_x)[i] + Deref(anim.bit_widths_y)[i]
         + Deref(anim.bit_widths_z)[i] + BitsOfVertices(anim, i + 1)

\* Whether reconstructing this frame reads a word past the delta stream:
\* the cursor only advances, so the last bit read is the furthest.
Overruns(m, frame_index) ==
    frame_index * BitsOfVertices(Deref(m.animation), 1)
        > WordBits * Len(StreamWords(Deref(m.animation)))

\* Whether seeding frame 0 converts a float that uint8_t cannot hold.
SeedUndefined(anim) ==
    /\ anim.is_first_frame_raw
    /\ \E i \in 1..anim.num_vertices, a \in 1..3 :
          QuantizeUndefined(Deref(anim.first_frame_raw)[i][a],
                            anim.min[a], anim.max[a])

\* The outcomes of the undefined behaviour a reconstruction runs into: a
\* component of env that the reconstruction never reads is left at its
\* first value.
EnvsFor(overruns, seed_undefined) ==
    { e \in Envs :
        /\ overruns \/ (e.oob = 0 /\ ~e.crash)
        /\ seed_undefined \/ e.cast = 0
        /\ ~e.shift_wraps }

\* Whether replaying a frame shifts by 32 or more: some width is 32 or more.
ShiftUndefined(anim) ==
    \E i \in 1..anim.num_vertices :
       \/ Deref(anim.bit_widths_x)[i] >= WordBits
       \/ Deref(anim.bit_widths_y)[i] >= WordBits
       \/ Deref(anim.bit_widths_z)[i] >= WordBits

\* The outcomes of the undefined behaviour that reconstructing frame
\* frame_index of m runs into.
ReplayEnvs(m, frame_index) ==
    LET anim == Deref(m.animation)
        defined == EnvsFor(Overruns(m, frame_index), SeedUndefined(anim))
    IN IF frame_index >= 1 /\ ShiftUndefined(anim)
       THEN defined \cup { [e EXCEPT !.shift_wraps = TRUE] : e \in defined }
       ELSE defined

\* What rat_model_create_from_chunk comes to: [handle, model, heap, fault,
\* failed], where handle is "null" for a NULL return, "live" for a model and
\* "unset" when the call never returns, and failed (a ghost) tells whether
\* an allocation returned NULL on the way.  Two more ghosts are added on
\* the way out: chunk_diag and mesh_diag, what each loader wrote to stderr
\* ("unread" for a file that was not opened).
Created(hnd, m, h, fault, failed) ==
    [handle |-> hnd, model |-> m, heap |-> h, fault |-> fault,
     failed |-> failed]

\* Variant of FinishCreate: frame 0 is not reconstructed.
FinishCreateUndecoded(m, h, texture_id, env) ==
    Created("live",
            [m EXCEPT !.texture_id = texture_id,
                      !.current_frame = -1,
                      !.is_valid = TRUE],
            h, "none", FALSE)

\* Variant of FinishCreate: is_valid is not set.
FinishCreateInvalid(m, h, texture_id, env) ==
    Created("live",
            rat_model_update("live",
                             [m EXCEPT !.texture_id = texture_id,
                                       !.current_frame = -1],
                             0, env),
            h, "none", FALSE)

\* Lines 62-71: the model m, complete, with frame 0 reconstructed.
FinishCreate(m, h, texture_id, env) ==
    Created("live",
            rat_model_update("live",
                             [m EXCEPT !.texture_id = texture_id,
                                       !.current_frame = -1,
                                       !.is_valid = TRUE],
                             0, env),
            h, "none", FALSE)

\* Lines 56-71: m holds the two scratch pointers.
CheckScratch(m, h, texture_id, env) ==
    IF m.decompressed_vertices_u8 = NULL \/ m.current_frame_vertices = NULL
    THEN Created("null", ZeroModel, DestroyFrees(m, h), "none", TRUE)
    ELSE FinishCreate(m, h, texture_id, env)

\* Lines 47-55: M is what load_rat_mesh_data returned.  The scratch buffers
\* are not yet written.
AfterMesh(m, M, texture_id, fails, env) ==
    [mesh_diag |-> M.diag] @@
    IF M.fault # "none"
    THEN Created("unset", m, M.heap, M.fault, M.failed)
    ELSE IF M.ret = NULL
    THEN Created("null", ZeroModel, DestroyFrees(m, M.heap), "none", M.failed)
    ELSE CheckScratch(
           [m EXCEPT !.mesh_data = M.ret,
                     !.decompressed_vertices_u8 =
                         Malloc("decompressed_vertices_u8", fails, <<>>),
                     !.current_frame_vertices =
                         Malloc("current_frame_vertices", fails, <<>>)],
           AllocAll(M.heap, {"decompressed_vertices_u8",
                             "current_frame_vertices"} \ fails),
           texture_id, env)

\* Lines 30-46: A is what load_rat_animation returned.
AfterAnimation(A, mesh, texture_id, fails, env) ==
    [chunk_diag |-> A.diag] @@
    IF A.fault # "none"
    THEN [mesh_diag |-> "unread"]
         @@ Created("unset", ZeroModel, A.heap, A.fault, A.failed)
    ELSE IF A.ret = NULL
    THEN [mesh_diag |-> "unread"]
         @@ Created("null", ZeroModel, DestroyFrees(ZeroModel, A.heap), "none",
                    A.failed)
    ELSE AfterMesh([ZeroModel EXCEPT !.animation = A.ret],
                   load_rat_mesh_data(mesh, fails, A.heap),
                   texture_id, fails, env)

rat_model_create_from_chunk(chunk, mesh, texture_id, fails, env) ==
    IF "model" \in fails
    THEN [chunk_diag |-> "unread", mesh_diag |-> "unread"]
         @@ Created("null", ZeroModel, EmptyHeap, "none", TRUE)
    ELSE AfterAnimation(
           load_rat_animation(chunk, fails, AllocAll(EmptyHeap, {"model"})),
           mesh, texture_id, fails, env)

\* Variant of rat_model_destroy: no test for a null model.
rat_model_destroy_unguarded(hnd, m, h, stale) ==
    IF hnd = "null"
    THEN [handle |-> "null", heap |-> h, fault |-> "null_deref"]
    ELSE [handle |-> "dangling",
          heap |-> DestroyFrees(IF hnd = "live" \/ stale THEN m ELSE ZeroModel, h),
          fault |-> IF hnd = "live" THEN "none" ELSE "use_after_free"]

\* rat_model_destroy: [handle, heap, fault].  The caller's pointer is passed
\* by value and stays as it was, so a destroyed model leaves it dangling;
\* stale tells whether the freed struct of an already destroyed model still
\* reads as it was left (otherwise it reads as zeroes).
rat_model_destroy(hnd, m, h, stale) ==
    IF hnd = "null"
    THEN [handle |-> "null", heap |-> h, fault |-> "none"]
    ELSE IF hnd = "live"
    THEN [handle |-> "dangling", heap |-> DestroyFrees(m, h), fault |-> "none"]
    ELSE [handle |-> "dangling",
          heap |-> DestroyFrees(IF stale THEN m ELSE ZeroModel, h),
          fault |-> "use_after_free"]

\* ------------------------------------------------------------- the state

VARIABLES
    handle,   \* the caller's RatModel*: "unset", "null", "live", "dangling"
    model,    \* the RatModel struct handle points to
    heap,     \* per allocation site: "none", "live", "freed", "freed_twice"
    fault,    \* "none", or the undefined behaviour after which the program
              \* is followed no further: "null_deref", "name_oob_write",
              \* "name_oob_read", "region_oob_read" in a loader, "oob_read"
              \* in a seek, "use_after_free" in a destroy
    attempt,  \* ghost: what the load was given (the kind, length and magic
              \* of each file, whether an allocation failed) and what each
              \* loader wrote to stderr
    lastOp,   \* ghost: the last API call that returned, [op, frame, before,
              \* ran]: its frame argument, the index stored before it and
              \* whether decompress_frame ran
    reader,   \* a bit reader on its own: the words, the cursor, and the
              \* last call [op, at, num_bits, value, result]
    sample    \* one coordinate on its own: the bounds of its axis, the raw
              \* value, and what quantizing and de-quantizing made of it

vars == << handle, model, heap, fault, attempt, lastOp, reader, sample >>

\* The frames asked for: every frame a chunk can hold, and two past them.
FrameArgs == 0..(MaxFrames + 1)

\* A reader that was given no words.
NoReader ==
    [data |-> << >>, bit_offset |-> 0, op |-> "none", at |-> 0,
     num_bits |-> 0, value |-> 0, result |-> 0]

\* No coordinate was given.
NoSample ==
    [min |-> 0, max |-> 0, raw |-> 0, op |-> "none", q |-> 0, value |-> 0,
     undefined |-> FALSE]

\* No model was loaded.
NoLoad ==
    /\ handle = "unset"
    /\ model = ZeroModel
    /\ heap = EmptyHeap
    /\ fault = "none"
    /\ attempt = [chunk |-> "none", mesh |-> "none", alloc_failed |-> FALSE,
                  chunk_size |-> 0, chunk_magic |-> 0, chunk_diag |-> "unread",
                  mesh_size |-> 0, mesh_magic |-> 0, mesh_diag |-> "unread"]
    /\ lastOp = [op |-> "none", frame |-> 0, before |-> 0, ran |-> FALSE]

Init ==
    /\ NoLoad
    /\ reader = NoReader
    /\ sample = NoSample

\* The state after rat_model_create_from_chunk came to r.
Loaded(r, chunk, mesh) ==
    /\ handle' = r.handle
    /\ model' = r.model
    /\ heap' = r.heap
    /\ fault' = r.fault
    /\ attempt' = [chunk |-> chunk.kind, mesh |-> mesh.kind,
                   alloc_failed |-> r.failed,
                   chunk_size |-> chunk.layout.buffer_size,
                   chunk_magic |-> chunk.layout.magic,
                   chunk_diag |-> r.chunk_diag,
                   mesh_size |-> mesh.layout.buffer_size,
                   mesh_magic |-> mesh.layout.magic,
                   mesh_diag |-> r.mesh_diag]
    /\ lastOp' = IF r.fault = "none"
                 THEN [op |-> "load", frame |-> 0, before |-> 0,
                       ran |-> r.handle = "live"]
                 ELSE lastOp

\* load(chunk_path): rat_model_create_from_chunk on some pair of files,
\* with some allocation failing.
Load ==
    /\ handle = "unset"
    /\ fault = "none"
    /\ \E chunk \in ChunkFiles, mesh \in MeshFiles, fails \in FailureSets,
          texture_id \in TextureIds, env \in EnvsFor(FALSE, TRUE) :
         Loaded(rat_model_create_from_chunk(chunk, mesh, texture_id, fails, env),
                chunk, mesh)
    /\ UNCHANGED << reader, sample >>

\* seek(model, frame): rat_model_update on a null handle or a live model.
Seek ==
    /\ handle \in {"null", "live"}
    /\ fault = "none"
    /\ \E local_frame \in FrameArgs :
         IF UpdateReturnsEarly(handle, model, local_frame)
         THEN /\ lastOp' = [op |-> "seek", frame |-> local_frame,
                            before |-> model.current_frame, ran |-> FALSE]
              /\ UNCHANGED << handle, model, heap, fault, attempt >>
         ELSE
           LET target == ClampFrame(handle, model, local_frame)
               anim == Deref(model.animation)
               overruns == Overruns(model, target)
           IN \E env \in ReplayEnvs(model, target) :
              IF overruns /\ (anim.delta_stream = NULL \/ env.crash)
              THEN \* the read past the stream stops the program
                   /\ fault' = IF anim.delta_stream = NULL
                               THEN "null_deref" ELSE "oob_read"
                   /\ UNCHANGED << handle, model, heap, attempt, lastOp >>
              ELSE /\ model' = rat_model_update(handle, model, local_frame, env)
                   /\ lastOp' = [op |-> "seek", frame |-> local_frame,
                                 before |-> model.current_frame, ran |-> TRUE]
                   /\ UNCHANGED << handle, heap, fault, attempt >>
    /\ UNCHANGED << reader, sample >>

\* destroy(model): rat_model_destroy on a null, a live or an already
\* destroyed handle.  The freed struct of a destroyed handle reads either
\* as it was left or as zeroes.
Destroy ==
    /\ handle \in {"null", "live", "dangling"}
    /\ fault = "none"
    /\ \E stale \in IF handle = "dangling" THEN BOOLEAN ELSE {TRUE} :
         /\ handle' = rat_model_destroy(handle, model, heap, stale).handle
         /\ heap' = rat_model_destroy(handle, model, heap, stale).heap
         /\ fault' = rat_model_destroy(handle, model, heap, stale).fault
         /\ lastOp' = IF fault' = "none"
                      THEN [op |-> "destroy", frame |-> 0, before |-> 0,
                            ran |-> FALSE]
                      ELSE lastOp
         /\ UNCHANGED << model, attempt, reader, sample >>

Next == Load \/ Seek \/ Destroy

Spec == Init /\ [][Next]_vars

(***************************************************************************)
(* The bit reader on its own: get_bits and sign_extend applied to words    *)
(* that use all 32 bits and to every width a uint8_t field of up to 32     *)
(* can ask for.  decompress_frame drives them the same way: the cursor     *)
(* starts at 0 and each call moves it on.                                  *)
(***************************************************************************)

\* 0x7A5C321F and 0xFFFFFFFF.
ReaderWords == {2052862495, -1}

ReaderStreams ==
    UNION { [1..n -> ReaderWords] : n \in 1..MaxReaderWords }

\* The two outcomes of a shift by 32; no read leaves the words.
ShiftEnvs == { e \in Envs : e.oob = 0 /\ e.cast = 0 /\ ~e.crash }

ReaderInit ==
    /\ NoLoad
    /\ \E data \in ReaderStreams : reader = [NoReader EXCEPT !.data = data]
    /\ sample = NoSample

\* uint64_t bit_offset = 0: a decoding starts at the first bit.
Rewind ==
    /\ reader.bit_offset # 0
    /\ reader' = [NoReader EXCEPT !.data = reader.data, !.op = "rewind"]
    /\ UNCHANGED << handle, model, heap, fault, attempt, lastOp, sample >>

\* The state of the reader after get_bits returned g.
AfterRead(g, num_bits) ==
    [data |-> reader.data, bit_offset |-> g.bit_offset, op |-> "read",
     at |-> reader.bit_offset, num_bits |-> num_bits, value |-> g.value,
     result |-> 0]

\* get_bits(data, &bit_offset, num_bits) for a field inside the words.
ReadField ==
    /\ \E num_bits \in 0..WordBits, env \in ShiftEnvs :
         /\ reader.bit_offset + num_bits <= WordBits * Len(reader.data)
         /\ reader' = AfterRead(get_bits(reader.data, reader.bit_offset,
                                         num_bits, env), num_bits)
    /\ UNCHANGED << handle, model, heap, fault, attempt, lastOp, sample >>

\* sign_extend(value, num_bits) of the field just read, as decompress_frame
\* calls it.
Extend ==
    /\ reader.op = "read"
    /\ \E env \in ShiftEnvs :
         reader' = [reader EXCEPT
                      !.op = "extend",
                      !.result = sign_extend(reader.value, reader.num_bits,
                                             env)]
    /\ UNCHANGED << handle, model, heap, fault, attempt, lastOp, sample >>

ReaderNext == Rewind \/ ReadField \/ Extend

ReaderSpec == ReaderInit /\ [][ReaderNext]_vars

(***************************************************************************)
(* The quantization of one coordinate on its own: the expression that      *)
(* seeds a raw base frame and the one that de-quantizes, applied to one    *)
(* axis with its bounds.                                                   *)
(***************************************************************************)

\* The lower bounds and the ranges max - min of an axis; a range of 0 is a
\* degenerate bounding box.
QuantMins == {-10, 0, 5}
QuantRanges == {0, 7, 255, 510}

\* The raw values of an axis: every integer of the bounding box, and one
\* on either side of it.
QuantSamples ==
    UNION { UNION {
      { [NoSample EXCEPT !.min = mn, !.max = mn + range, !.raw = raw] :
          raw \in (mn - MaxOutside)..(mn + range + MaxOutside) }
      : range \in QuantRanges }
      : mn \in QuantMins }

QuantInit ==
    /\ NoLoad
    /\ reader = NoReader
    /\ sample \in QuantSamples

\* Lines 308-310, one axis: the raw value quantized.
Quantize ==
    /\ sample.op = "none"
    /\ \E env \in EnvsFor(FALSE, QuantizeUndefined(sample.raw, sample.min,
                                                    sample.max)) :
         sample' = [sample EXCEPT
                      !.op = "quantize",
                      !.q = QuantizeAxis(sample.raw, sample.min, sample.max,
                                         env),
                      !.undefined = QuantizeUndefined(sample.raw, sample.min,
                                                      sample.max)]
    /\ UNCHANGED << handle, model, heap, fault, attempt, lastOp, reader >>

\* Lines 353-355, one axis: the quantized value de-quantized.
Dequantized ==
    /\ sample.op = "quantize"
    /\ sample' = [sample EXCEPT
                     !.op = "dequantize",
                     !.value = DequantizeAxis(sample.q, sample.min,
                                              sample.max)]
    /\ UNCHANGED << handle, model, heap, fault, attempt, lastOp, reader >>

QuantNext == Quantize \/ Dequantized

QuantSpec == QuantInit /\ [][QuantNext]_vars

\* ------------------------------------------------------------ the claims

\* The outcomes of undefined behaviour when none is met.
NoUB == NoEnv

\* The models seek(m, f) can leave a live model m in when it returns.
SeekOutcomes(m, f) ==
    { rat_model_update("live", m, f, env) :
        env \in { e \in ReplayEnvs(m, ClampFrame("live", m, f)) :
                    \/ UpdateReturnsEarly("live", m, f)
                    \/ ~Overruns(m, ClampFrame("live", m, f))
                    \/ (Deref(m.animation).delta_stream # NULL /\ ~e.crash) } }

\* A step in which seek on a live model returned.
SeekReturned ==
    /\ handle = "live" /\ handle' = "live"
    /\ fault' = "none"
    /\ lastOp'.op = "seek"

\* C1: on a loaded model the scratch buffer and the float vertices depend
\* only on the stored frame index: a step that leaves the index where it was
\* leaves both buffers as they were, and wherever the replay of the delta
\* stream is defined the buffers hold the base frame with the deltas of
\* frames 1..index applied and its de-quantization.
C1_BuffersFollowIndex ==
    [][ /\ (handle = "live" /\ handle' = "live"
            /\ model'.current_frame = model.current_frame)
           => /\ model'.decompressed_vertices_u8 = model.decompressed_vertices_u8
              /\ model'.current_frame_vertices = model.current_frame_vertices
        /\ (handle' = "live"
            /\ ~Overruns(model', model'.current_frame)
            /\ ~SeedUndefined(Deref(model'.animation)))
           => LET anim == Deref(model'.animation)
                  u8 == ReconstructU8(anim, model'.current_frame, NoUB).verts
              IN /\ model'.decompressed_vertices_u8 = Ptr(u8)
                 /\ model'.current_frame_vertices = Ptr(Dequantize(anim, u8))
      ]_vars

\* The frame index the clamping policy gives for frame f and frame count fc.
Clamped(f, fc) == IF f < fc THEN f ELSE IF fc >= 1 THEN fc - 1 ELSE 0

\* C2 (as stated): after seek(model, f) with f other than the stored index,
\* the stored index is f clamped against the animation's recorded frame
\* count.
C2_ClampsToRecordedCount ==
    (handle = "live" /\ lastOp.op = "seek" /\ lastOp.frame # lastOp.before)
    => model.current_frame
         = Clamped(lastOp.frame, Deref(model.animation).num_frames)

\* C2 (amended): after seek(model, f) with f other than the stored index,
\* the stored index is f clamped against the frame count that frame_count
\* reports, which is the recorded count or 0 for an animation without
\* vertices; the call reconstructs that frame and returns.
C2_ClampsToReportedCount ==
    (handle = "live" /\ lastOp.op = "seek" /\ lastOp.frame # lastOp.before)
    => LET anim == Deref(model.animation)
           fc == IF anim.num_vertices = 0 THEN 0 ELSE anim.num_frames
       IN /\ model.current_frame = Clamped(lastOp.frame, fc)
          /\ lastOp.ran

\* A seek below the recorded frame count of an animation without vertices
\* has stored frame 0.
C2_Witness ==
    /\ handle = "live" /\ lastOp.op = "seek"
    /\ lastOp.frame # lastOp.before
    /\ Deref(model.animation).num_vertices = 0
    /\ lastOp.frame < Deref(model.animation).num_frames
    /\ model.current_frame = 0

\* C3: with frame_count >= 1, seek(model, k) for k >= frame_count leaves
\* the same quantized and float vertices as seek(model, frame_count - 1)
\* does from the same model, whatever frame was stored before.
C3_ClampedSeekSameVertices ==
    [][ (SeekReturned
         /\ Deref(model.animation).num_frames >= 1
         /\ lastOp'.frame >= Deref(model.animation).num_frames)
        => \A o \in SeekOutcomes(model, Deref(model.animation).num_frames - 1) :
             /\ o.decompressed_vertices_u8 = model'.decompressed_vertices_u8
             /\ o.current_frame_vertices = model'.current_frame_vertices
      ]_vars

\* C4: seek(model, frame) with frame equal to the stored index runs no
\* reconstruction and leaves the index and both buffers unchanged.
C4_SeekSameFrameIsNoOp ==
    [][ (SeekReturned /\ lastOp'.frame = model.current_frame)
        => /\ ~lastOp'.ran
           /\ model' = model
      ]_vars

\* A seek to the stored frame, past frame 0, has returned.
C4_Witness ==
    /\ handle = "live" /\ lastOp.op = "seek"
    /\ lastOp.frame = lastOp.before
    /\ lastOp.frame >= 1
    /\ Deref(model.animation).num_vertices >= 1
    /\ ~lastOp.ran

\* Whether the last call was a seek with an out-of-range frame that is not
\* the stored index but is clamped to it.
OutOfRangeOntoStored ==
    /\ handle = "live" /\ lastOp.op = "seek"
    /\ lastOp.frame >= rat_model_get_chunk_frame_count(handle, model)
    /\ lastOp.frame # lastOp.before
    /\ ClampFrame(handle, model, lastOp.frame) = lastOp.before

BaseFrames(anim) == { SeedFrame(anim, env) : env \in Envs }

\* C6: a model that load returns is valid and never shows the stored index
\* -1; right after load the stored index is 0, the scratch buffer holds the
\* quantized base frame and the float vertices are its de-quantization, for
\* every frame count.
C6_LoadedModelShowsFrameZero ==
    handle = "live"
    => /\ model.is_valid
       /\ model.current_frame # -1
       /\ lastOp.op = "load"
          => LET anim == Deref(model.animation)
             IN /\ model.current_frame = 0
                /\ model.decompressed_vertices_u8 # NULL
                /\ Deref(model.decompressed_vertices_u8) \in BaseFrames(anim)
                /\ ~anim.is_first_frame_raw
                   => \A i \in 1..anim.num_vertices :
                        Deref(model.decompressed_vertices_u8)[i]
                          = Deref(anim.first_frame_quantized)[i]
                /\ model.current_frame_vertices =
                     Ptr(Dequantize(anim, Deref(model.decompressed_vertices_u8)))

\* load has returned a model of an animation without frames whose raw base
\* frame is de-quantized to values other than zero.
C6_Witness ==
    /\ handle = "live" /\ lastOp.op = "load"
    /\ Deref(model.animation).num_frames = 0
    /\ Deref(model.animation).num_vertices = MaxVertices
    /\ Deref(model.animation).is_first_frame_raw
    /\ model.current_frame = 0
    /\ Deref(model.current_frame_vertices)[1] = <<0, 2550, 1275>>

\* Whether the load that was attempted met a parse or an allocation failure.
LoadFailed ==
    /\ attempt.chunk # "none"
    /\ attempt.chunk # "ok" \/ attempt.mesh # "ok" \/ attempt.alloc_failed

\* C7: a load in which a parse or an allocation fails returns no model, and
\* every buffer allocated in it has been freed exactly once, none being left
\* allocated, freed twice or dereferenced while null.
C7_FailedLoadReleasesAll ==
    LoadFailed
    => /\ handle = "null"
       /\ fault = "none"
       /\ \A s \in AllocSites : heap[s] \in {"none", "freed"}

\* The sites rat_model_destroy has to free on model m: every one whose
\* pointer in m or its records is not null.
HeldSites(m) ==
    LET a == Deref(m.animation)
        d == Deref(m.mesh_data)
    IN {"model", "animation", "mesh_data"}
       \cup { s \in {"first_frame_quantized", "first_frame_raw", "bit_widths_x",
                     "bit_widths_y", "bit_widths_z", "delta_stream"} :
                a[s] # NULL }
       \cup { s \in {"uvs", "colors", "indices"} : d[s] # NULL }
       \cup { s \in {"decompressed_vertices_u8", "current_frame_vertices"} :
                m[s] # NULL }

\* C8: destroy on a loaded model frees the animation record with its base
\* frame, bit-width tables and delta stream, the mesh record with its UV,
\* color and index buffers, both scratch buffers and the model, each exactly
\* once; a loaded model holds all of these but a buffer of size 0.
C8_DestroyFreesEachOnce ==
    /\ handle = "live"
       => /\ \A s \in HeldSites(model) : heap[s] = "live"
          /\ \A s \in AllocSites \ HeldSites(model) : heap[s] # "live"
          /\ {"model", "animation", "mesh_data", "decompressed_vertices_u8",
              "current_frame_vertices"} \subseteq HeldSites(model)
          /\ Deref(model.animation).num_vertices > 0
             => {"bit_widths_x", "bit_widths_y", "bit_widths_z"}
                   \subseteq HeldSites(model)
                /\ ({"first_frame_quantized", "first_frame_raw"}
                      \cap HeldSites(model)) # {}
          /\ Deref(model.animation).delta_stream_word_count > 0
             => "delta_stream" \in HeldSites(model)
          /\ Deref(model.mesh_data).num_vertices > 0
             => {"uvs", "colors"} \subseteq HeldSites(model)
          /\ Deref(model.mesh_data).num_indices > 0
             => "indices" \in HeldSites(model)
    /\ (handle = "dangling" /\ fault = "none")
       => /\ \A s \in HeldSites(model) : heap[s] = "freed"
          /\ \A s \in AllocSites : heap[s] \in {"none", "freed"}

\* A model with all its buffers has been destroyed.
C8_Witness ==
    /\ handle = "dangling" /\ fault = "none"
    /\ lastOp.op = "destroy"
    /\ \A s \in AllocSites \ {"first_frame_raw"} : heap[s] = "freed"

\* A step of destroy on a null handle or on a handle already destroyed.
RedundantDestroy == Destroy /\ handle \in {"null", "dangling"}

\* C9 (as stated): destroy on a null handle, or on a handle that was
\* already destroyed, has no effect: nothing is freed and no released memory
\* is accessed.
C9_DestroyIdempotent ==
    [][ RedundantDestroy
        => /\ heap' = heap
           /\ fault' = "none"
           /\ model' = model ]_vars

\* C9 (amended): destroy on a null handle has no effect; it is the only
\* repeated destroy that is safe, the handle of a destroyed model being left
\* dangling.
C9_DestroyNullIsNoOp ==
    [][ (Destroy /\ handle = "null")
        => /\ heap' = heap
           /\ fault' = "none"
           /\ model' = model
           /\ handle' = "null" ]_vars

\* destroy has returned on the null handle of a failed load.
C9_Witness ==
    /\ handle = "null"
    /\ lastOp.op = "destroy"
    /\ fault = "none"
    /\ attempt.chunk = "ok"

\* Whether the load that was attempted parsed both files and had every
\* allocation it needed.
LoadSucceeded ==
    /\ attempt.chunk = "ok"
    /\ attempt.mesh = "ok"
    /\ ~attempt.alloc_failed

\* C10: is_valid(model) is true exactly when load fully succeeded, the
\* model then holding its animation, its mesh and both scratch buffers; it
\* is false for a null handle and for every failed load.
C10_ValidIffLoadSucceeded ==
    handle \in {"null", "live"}
    => /\ rat_model_is_valid(handle, model) <=> LoadSucceeded
       /\ handle = "null" => ~rat_model_is_valid(handle, model)
       /\ rat_model_is_valid(handle, model)
          => /\ model.animation # NULL
             /\ model.mesh_data # NULL
             /\ model.decompressed_vertices_u8 # NULL
             /\ model.current_frame_vertices # NULL

\* A load that parsed both files has returned no model for want of a
\* scratch buffer, and the model is not valid.
C10_Witness ==
    /\ handle = "null"
    /\ attempt.chunk = "ok" /\ attempt.mesh = "ok" /\ attempt.alloc_failed
    /\ heap["mesh_data"] = "freed"
    /\ ~rat_model_is_valid(handle, model)

\* C11 (as stated): frame_count(model) is the animation's recorded frame
\* count whenever an animation is loaded, for every vertex count, and 0 for
\* a null handle.
C11_FrameCountIsRecorded ==
    /\ handle = "live"
       => rat_model_get_chunk_frame_count(handle, model)
            = Deref(model.animation).num_frames
    /\ handle = "null"
       => rat_model_get_chunk_frame_count(handle, model) = 0

\* C11 (amended): frame_count(model) is the animation's recorded frame count
\* when an animation with at least one vertex is loaded; it is 0 for a null
\* handle and also for a loaded animation without vertices, whatever frame
\* count that animation records.
C11_FrameCountZeroWithoutVertices ==
    /\ handle = "live"
       => rat_model_get_chunk_frame_count(handle, model)
            = IF Deref(model.animation).num_vertices = 0 THEN 0
              ELSE Deref(model.animation).num_frames
    /\ handle = "null"
       => rat_model_get_chunk_frame_count(handle, model) = 0

\* A loaded animation without vertices records frames and reports none.
C11_Witness ==
    /\ handle = "live"
    /\ Deref(model.animation).num_vertices = 0
    /\ Deref(model.animation).num_frames = MaxFrames
    /\ rat_model_get_chunk_frame_count(handle, model) = 0

\* Whether the load that was attempted read the animation file, and the
\* mesh file, into a buffer.
ChunkRead == attempt.chunk_diag # "unread" /\ attempt.chunk # "unreadable"
MeshRead == attempt.mesh_diag # "unread" /\ attempt.mesh # "unreadable"

\* C12: each parser rejects a buffer shorter than its fixed header as
\* Truncated, and a buffer of at least header length with another magic as
\* BadMagic; load then returns no model, no record of that parser is left
\* and the file buffer has been freed.
C12_HeaderChecksReject ==
    /\ (ChunkRead /\ attempt.chunk_size < SizeofRatHeader)
       => /\ attempt.chunk_diag = "Truncated"
          /\ handle = "null"
          /\ heap["chunk_buffer"] = "freed" /\ heap["animation"] = "none"
    /\ (ChunkRead /\ attempt.chunk_size >= SizeofRatHeader
        /\ attempt.chunk_magic # RAT3_MAGIC)
       => /\ attempt.chunk_diag = "BadMagic"
          /\ handle = "null"
          /\ heap["chunk_buffer"] = "freed" /\ heap["animation"] = "none"
    /\ (MeshRead /\ attempt.mesh_size < SizeofRatMeshHeader)
       => /\ attempt.mesh_diag = "Truncated"
          /\ handle = "null"
          /\ heap["mesh_buffer"] = "freed" /\ heap["mesh_data"] = "none"
    /\ (MeshRead /\ attempt.mesh_size >= SizeofRatMeshHeader
        /\ attempt.mesh_magic # RATM_MAGIC)
       => /\ attempt.mesh_diag = "BadMagic"
          /\ handle = "null"
          /\ heap["mesh_buffer"] = "freed" /\ heap["mesh_data"] = "none"

\* An animation file one byte short of its header and with the wrong magic
\* has been rejected as Truncated.
C12_Witness ==
    /\ ChunkRead
    /\ attempt.chunk_size = SizeofRatHeader - 1
    /\ attempt.chunk_magic = RATM_MAGIC
    /\ attempt.chunk_diag = "Truncated"
    /\ handle = "null"

\* C13: the copy of an embedded filename (the mesh filename of a chunk, the
\* texture filename of a mesh) never reads past the end of the file buffer
\* and never writes, terminator included, past the end of its 256-byte
\* field, whatever offset and length the header declares.
C13_FilenameCopyInBounds ==
    fault \notin {"name_oob_read", "name_oob_write"}

\* C14: a parser given a header that declares a block (base frame, bit-width
\* tables, delta stream, UVs, colors, indices) reaching past the end of the
\* buffer fails with Truncated and returns no record, and never reads
\* outside the buffer.
C14_RegionsChecked ==
    /\ fault # "region_oob_read"
    /\ (ChunkRead /\ attempt.chunk = "corrupt_region" /\ ~attempt.alloc_failed)
       => (attempt.chunk_diag = "Truncated" /\ handle = "null")
    /\ (MeshRead /\ attempt.mesh = "corrupt_region" /\ ~attempt.alloc_failed)
       => (attempt.mesh_diag = "Truncated" /\ handle = "null")

\* C18: for every frame N >= 1 that a model shows, the quantized vertices of
\* the full replay to N are those of reconstructing frame N - 1 and then
\* applying the deltas of frame N alone, read from bit (N - 1) times the
\* bits of one frame.
C18_ReplayIsIncremental ==
    (handle = "live" /\ model.current_frame >= 1)
    => LET anim == Deref(model.animation)
           N == model.current_frame
       IN \A env \in ReplayEnvs(model, N) :
            \A i \in 1..anim.num_vertices :
               Deref(model.decompressed_vertices_u8)[i]
                 = DeltaVertices(anim, ReconstructU8(anim, N - 1, env).verts, 1,
                                 (N - 1) * BitsOfVertices(anim, 1), env).verts[i]

\* C19: the vertices the frame-0 branch of decompress_frame leaves, quantized
\* and float, are those the replay branch leaves when it applies no delta,
\* for a raw and for a pre-quantized base frame.
C19_DirectEqualsEmptyReplay ==
    (handle = "live" /\ model.current_frame = 0)
    => LET anim == Deref(model.animation)
       IN \A env \in EnvsFor(FALSE, SeedUndefined(anim)) :
            /\ \A i \in 1..anim.num_vertices :
                 Deref(model.decompressed_vertices_u8)[i]
                   = ReplayPath(anim, 0, env).verts[i]
            /\ model.current_frame_vertices
                 = Ptr(Dequantize(anim, ReplayPath(anim, 0, env).verts))

\* The bit at which the deltas of vertex i of frame N start.
DeltaOffset(anim, N, i) ==
    N * BitsOfVertices(anim, 1) - BitsOfVertices(anim, i)

\* Each component of the vertices is a byte congruent modulo 256 to the
\* component of frame N - 1 plus its delta of frame N, under the outcome env
\* of undefined reads.
WrappedFrom(anim, verts, N, env) ==
    \A i \in 1..anim.num_vertices, a \in 1..3 :
       LET old == ReconstructU8(anim, N - 1, env).verts[i][a]
           delta == ReadVertexDeltas(anim, i, DeltaOffset(anim, N, i), env).d[a]
       IN /\ verts[i][a] \in 0..(U8Mod - 1)
          /\ (verts[i][a] - (old + delta)) % U8Mod = 0

\* C20: each decoded delta is added to its 8-bit component modulo 256,
\* whatever its sign, and the sum is never clamped to 0 or to 255.
C20_DeltasWrap ==
    (handle = "live" /\ model.current_frame >= 1)
    => LET anim == Deref(model.animation)
           N == model.current_frame
       IN \E env \in ReplayEnvs(model, N) :
            WrappedFrom(anim, Deref(model.decompressed_vertices_u8), N, env)

\* Frame 1 of a vertex at 0, 10, 255 with the deltas -1, +1, +2: the first
\* component wrapped below 0 and the last above 255.
C20_Witness ==
    /\ handle = "live" /\ model.current_frame = 1
    /\ ~Overruns(model, 1)
    /\ ~Deref(model.animation).is_first_frame_raw
    /\ Deref(Deref(model.animation).first_frame_quantized)[1] = <<0, 10, 255>>
    /\ ReadVertexDeltas(Deref(model.animation), 1, 0, NoEnv).d = <<-1, 1, 2>>
    /\ Deref(model.decompressed_vertices_u8)[1] = <<255, 11, 1>>

\* The animation of the model was read from TwoVertexChunk.
ShowsTwoVertexChunk ==
    /\ handle = "live"
    /\ LET anim == Deref(model.animation)
       IN /\ anim.num_vertices = 2 /\ anim.num_frames = 2
          /\ ~anim.is_first_frame_raw
          /\ anim.min = PlainBounds.min /\ anim.max = PlainBounds.max
          /\ anim.first_frame_quantized = Ptr(TwoVertexChunk.first_frame)
          /\ anim.bit_widths_x = Ptr(<<4, 4>>)
          /\ anim.bit_widths_y = Ptr(<<4, 4>>)
          /\ anim.bit_widths_z = Ptr(<<4, 4>>)
          /\ anim.delta_stream = Ptr(TwoVertexChunk.delta_stream)

\* C21: on the chunk of two vertices at 0,0,0 and 10,10,10 with bounds
\* 0..255, 4-bit widths and the deltas +1,+1,+1 and -1,-1,-1, seek(model, 1)
\* leaves the quantized vertices 1,1,1 and 9,9,9 and the float vertices
\* 1,1,1 and 9,9,9 (255 and 2295 in units of 1/255).
C21_TwoVertexExample ==
    (ShowsTwoVertexChunk /\ lastOp.op = "seek" /\ lastOp.frame = 1)
    => /\ model.current_frame = 1
       /\ model.decompressed_vertices_u8 = Ptr(<< <<1, 1, 1>>, <<9, 9, 9>> >>)
       /\ model.current_frame_vertices
            = Ptr(<< <<255, 255, 255>>, <<2295, 2295, 2295>> >>)

\* seek(model, 1) reconstructed frame 1 of that chunk from frame 0.
C21_Witness ==
    /\ ShowsTwoVertexChunk
    /\ lastOp = [op |-> "seek", frame |-> 1, before |-> 0, ran |-> TRUE]
    /\ model.decompressed_vertices_u8 = Ptr(<< <<1, 1, 1>>, <<9, 9, 9>> >>)

\* The distance between a and b.
Distance(a, b) == IF a >= b THEN a - b ELSE b - a

\* The sample lies in a bounding box that is not degenerate.
InBounds ==
    sample.max > sample.min /\ sample.raw \in sample.min..sample.max

\* C22: for bounds with max > min and every value in [min, max], quantizing
\* the value as the raw seeding does and de-quantizing it with the same
\* bounds gives a value at most (max - min) / 255 away (floats are in units
\* of 1/255, so the raw value is 255 * raw and the limit max - min).
C22_RoundTripWithinOneLevel ==
    (sample.op = "dequantize" /\ InBounds)
    => Distance(sample.value, 255 * sample.raw) <= sample.max - sample.min

\* A value that came back almost a level lower: 2 in 0..7 as 504 / 255.
C22_Witness ==
    /\ sample.op = "dequantize" /\ InBounds
    /\ sample.min = 0 /\ sample.max = 7 /\ sample.raw = 2
    /\ sample.q = 72 /\ sample.value = 504

\* Whether seeding frame 0 divides by max - min = 0 on some axis.
SeedDividesByZero(anim) ==
    /\ anim.is_first_frame_raw
    /\ anim.num_vertices > 0
    /\ \E a \in 1..3 : anim.max[a] = anim.min[a]

\* C23: a raw base frame with max = min on an axis is seeded by a fixed,
\* defined rule for that axis and without a division by zero: of a model
\* that load returned no reconstruction has divided by max - min = 0, and
\* quantizing a coordinate of such an axis is defined.
C23_DegenerateRangeDefined ==
    /\ handle = "live" => ~SeedDividesByZero(Deref(model.animation))
    /\ (sample.op = "quantize" /\ sample.max = sample.min)
          => ~sample.undefined

\* C29: for bounds with max > min and every raw value in [min, max], the
\* raw seeding quantizes to the nearest 8-bit level, the level q with
\* |255 * (raw - min) - q * (max - min)| at most half of max - min.
C29_QuantizesToNearest ==
    (sample.op = "quantize" /\ InBounds)
    => 2 * Distance(255 * (sample.raw - sample.min),
                    sample.q * (sample.max - sample.min))
         <= sample.max - sample.min

\* The width of axis a of vertex i.
WidthOf(anim, i, a) ==
    IF a = 1 THEN Deref(anim.bit_widths_x)[i]
    ELSE IF a = 2 THEN Deref(anim.bit_widths_y)[i]
    ELSE Deref(anim.bit_widths_z)[i]

\* The bit at which the delta of axis a of vertex i of frame N starts when
\* one cursor runs from bit 0 over the frames in order, the vertices of a
\* frame in order, and x, y, z of a vertex in order.
AxisOffset(anim, N, i, a) ==
    DeltaOffset(anim, N, i)
      + (IF a >= 2 THEN WidthOf(anim, i, 1) ELSE 0)
      + (IF a >= 3 THEN WidthOf(anim, i, 2) ELSE 0)

\* The delta of axis a of vertex i of frame N, read on its own.
AxisDelta(anim, N, i, a, env) ==
    sign_extend(get_bits(StreamWords(anim), AxisOffset(anim, N, i, a),
                         WidthOf(anim, i, a), env).value,
                WidthOf(anim, i, a), env)

\* C24: a reconstruction reads with one cursor that starts at 0 and runs
\* over frames 1..target, over the vertices of each frame in order and over
\* x, y, z of each vertex, each read of that vertex's width for the axis:
\* every component of frame N is that of frame N - 1 plus the delta found
\* at the place this order gives it, and the cursor after frame N is N times
\* the sum of all widths.
C24_OneCursorInOrder ==
    (handle = "live" /\ model.current_frame >= 1)
    => LET anim == Deref(model.animation)
           N == model.current_frame
           outcomes == ReplayEnvs(model, N)
       IN /\ \A env \in outcomes :
               ReconstructU8(anim, N, env).bit_offset
                 = N * BitsOfVertices(anim, 1)
          /\ \E env \in outcomes :
               \A i \in 1..anim.num_vertices, a \in 1..3 :
                  (Deref(model.decompressed_vertices_u8)[i][a]
                     - (ReconstructU8(anim, N - 1, env).verts[i][a]
                          + AxisDelta(anim, N, i, a, env))) % U8Mod = 0

\* Frame 2 of LongChunk was reconstructed: the deltas of frame 1 and then,
\* from bit 12 on, those of frame 2, which differ from axis to axis.
C24_Witness ==
    /\ handle = "live" /\ model.current_frame = 2
    /\ ~Overruns(model, 2)
    /\ AxisOffset(Deref(model.animation), 2, 1, 3) = 20
    /\ AxisDelta(Deref(model.animation), 2, 1, 1, NoEnv) = 3
    /\ AxisDelta(Deref(model.animation), 2, 1, 2, NoEnv) = -4
    /\ AxisDelta(Deref(model.animation), 2, 1, 3, NoEnv) = 5
    /\ Deref(model.decompressed_vertices_u8) = << <<2, 7, 6>> >>

\* C27: every entry of the three bit-width tables of a chunk that was
\* parsed is in 0..32, so that get_bits and sign_extend are never called
\* with a width above 32.
C27_WidthsAtMost32 ==
    handle = "live"
    => \A i \in 1..Deref(model.animation).num_vertices, a \in 1..3 :
          WidthOf(Deref(model.animation), i, a) \in 0..WordBits

\* C28: the mesh of every model that load returned has as many vertices as
\* its animation chunk; a chunk whose mesh has another vertex count gives
\* no valid model.
C28_MeshMatchesChunk ==
    handle = "live"
    => Deref(model.mesh_data).num_vertices
         = Deref(model.animation).num_vertices

\* The bits that the frames after the base frame take in the delta stream.
BitsNeeded(anim) ==
    IF anim.num_frames >= 1
    THEN (anim.num_frames - 1) * BitsOfVertices(anim, 1) ELSE 0

\* C26: the delta stream of every chunk that was loaded holds at least
\* (frame count - 1) times the bits of one frame; a file that does not is
\* rejected and gives no model on which a seek reads past the stream.
C26_StreamHoldsAllFrames ==
    handle = "live"
    => WordBits * Len(StreamWords(Deref(model.animation)))
         >= BitsNeeded(Deref(model.animation))

\* Lines 372-376: a field of num_bits bits at bit `at` ends in the next word.
Straddles(at, num_bits) == (at % WordBits) + num_bits > WordBits

\* The hypotheses on a chunk in memory: the delta stream holds the bits of
\* every frame after the base frame, and every width is in 0..32.
FormatInvariant(anim) ==
    /\ WordBits * Len(StreamWords(anim)) >= BitsNeeded(anim)
    /\ \A i \in 1..anim.num_vertices, a \in 1..3 :
          WidthOf(anim, i, a) \in 0..WordBits

\* C25: on a model whose chunk has a delta stream of at least
\* (frame count - 1) times the bits of one frame and widths in 0..32, after
\* any seeks, a seek to any frame argument reads no word at or past the
\* word count of the delta stream, the second word of a field that
\* straddles two words included.
C25_ReadsStayInsideStream ==
    (handle = "live" /\ FormatInvariant(Deref(model.animation)))
    => /\ fault # "oob_read"
       /\ \A local_frame \in FrameArgs :
            LET target == ClampFrame(handle, model, local_frame)
            IN \A env \in ReplayEnvs(model, target) :
                  ~ReconstructU8(Deref(model.animation), target, env).oob

\* A seek past the last frame of StraddleChunk ran: it read frame 1, whose
\* fourth field lies in bits 28..39 of the two words, and added its +1.
C25_Witness ==
    /\ handle = "live"
    /\ FormatInvariant(Deref(model.animation))
    /\ Len(StreamWords(Deref(model.animation))) = 2
    /\ Straddles(AxisOffset(Deref(model.animation), 1, 2, 1),
                 WidthOf(Deref(model.animation), 2, 1))
    /\ lastOp.op = "seek" /\ lastOp.ran /\ lastOp.frame > 1
    /\ model.current_frame = 1
    /\ model.decompressed_vertices_u8 = Ptr(<< <<0, 0, 0>>, <<11, 10, 10>> >>)

\* The model with the three fields a seek writes set to those of w.
WithBuffersOf(m, w) ==
    [m EXCEPT !.decompressed_vertices_u8 = w.decompressed_vertices_u8,
              !.current_frame_vertices = w.current_frame_vertices,
              !.current_frame = w.current_frame]

BitAt(data, k) ==
    LET w == data[(k \div WordBits) + 1]
        i == k % WordBits
    IN IF i = WordBits - 1 THEN (IF w < 0 THEN 1 ELSE 0)
       ELSE (w \div Pow2(i)) % 2

\* What bit j of a uint32_t adds to it; bit 31 makes it negative.
BitWeight(j) == IF j = WordBits - 1 THEN (-MaxInt32) - 1 ELSE Pow2(j)

\* The num_bits bits from bit at on, the first of them least significant.
RECURSIVE FieldValue(_, _, _)
FieldValue(data, at, num_bits) ==
    IF num_bits = 0 THEN 0
    ELSE FieldValue(data, at, num_bits - 1)
         + BitAt(data, at + num_bits - 1) * BitWeight(num_bits - 1)

\* C15: for every width in 0..32 and every field inside the words, get_bits
\* returns the unsigned value of the bits of the field, its first bit least
\* significant, whether the field lies in one word or straddles two; a
\* field of 32 bits at a word boundary and one of 0 bits are included.
C15_ReadBitsValue ==
    reader.op = "read" =>
        reader.value = FieldValue(reader.data, reader.at, reader.num_bits)

\* C16: every get_bits call moves the cursor on by exactly the width asked
\* for (0 for width 0) and changes nothing else; the words stay as they were.
C16_ReadAdvancesByWidth ==
    [][reader'.op = "read" =>
          /\ reader'.bit_offset = reader.bit_offset + reader'.num_bits
          /\ reader'.at = reader.bit_offset
          /\ reader'.data = reader.data
          /\ UNCHANGED << handle, model, heap, fault, attempt, lastOp,
                          sample >>]_vars

\* A field that straddles two words was read, after an earlier read.
C16_Witness ==
    /\ reader.op = "read"
    /\ reader.at > 0
    /\ Straddles(reader.at, reader.num_bits)
    /\ reader.bit_offset = reader.at + reader.num_bits

\* The integer of -2^(w-1) .. 2^(w-1) - 1 congruent to value modulo 2^w, for
\* a uint32_t value below 2^w and w in 1..32.
TwosComplement(value, w) ==
    IF w >= WordBits THEN value
    ELSE IF value >= 0 /\ value < Pow2(w - 1) THEN value
    ELSE IF w = WordBits - 1 THEN (value - MaxInt32) - 1
    ELSE value - Pow2(w)

\* C17: for every width w in 1..32 and every value below 2^w, sign_extend
\* returns the integer of -2^(w-1) .. 2^(w-1) - 1 congruent to the value
\* modulo 2^w; for width 0 it returns 0.
C17_SignExtendTwosComplement ==
    reader.op = "extend" =>
        reader.result = IF reader.num_bits = 0 THEN 0
                        ELSE TwosComplement(reader.value, reader.num_bits)

====
